---- MODULE Spec2Model ----
(***************************************************************************)
(* crosscorr: cross power spectrum of two 3D grids.                        *)
(*                                                                         *)
(* The model follows src/src/main.rs (the pipeline of stages) and          *)
(* src/src/lib.rs (Config::new, load_grid, perform_fft, correlate,         *)
(* Output::save_result, sinc).                                             *)
(*                                                                         *)
(* Units.  boxsize is a positive finite number, so kf = 2*pi/boxsize is a  *)
(* positive real.  Wavenumbers are kept in units of kf: w[x] is the        *)
(* integer WaveIndex(ngrid, x), g is in units of kf^2 and g * coeff is the *)
(* integer w[i]^2 + w[j]^2 + w[k]^2.  The argument of sinc,                *)
(* PI * w[x] / (2 * kny), equals pi * WaveIndex / ngrid and is kept in     *)
(* units of pi / ngrid.  Vectors are functions over 0 .. len-1, as the     *)
(* Rust vectors are indexed.                                               *)
(***************************************************************************)
EXTENDS Integers, Sequences, FiniteSets, TLC

VARIABLES
    pc,         \* position of main: the stage to run next, or "exit"
    exit_code,  \* -1 while running; 0, 1 (process::exit(1)) or 101 (panic)
    stderr,     \* what the process printed on stderr last
    calls,      \* the library stages main has called, in order
    results,    \* how each finished call ended: "ok", "err" or "panic"
    features,   \* the cargo features the build enables
    announced,  \* the correction correlate announced on stdout
    ngrid,      \* config.ngrid
    boxsize,    \* config.boxsize
    out1,       \* spectrum of grid 1, cells k + ngrid * (j + ngrid * i)
    out2,       \* spectrum of grid 2
    w,          \* correlate: wavenumber table, in units of kf
    pow_spec,   \* correlate: power per bin
    iweights,   \* correlate: number of triples per bin
    deltasqk,   \* correlate: dimensionless power
    i, j, k,    \* correlate: the triple the accumulation loop is at
    loc,        \* correlate: the locals of the latest loop iteration
    file        \* the output file

vars == <<pc, exit_code, stderr, calls, results, features, announced, ngrid,
          boxsize, out1, out2, w, pow_spec, iweights, deltasqk, i, j, k, loc,
          file>>

----------------------------------------------------------------------------
(* Bounds of the model *)

MaxNgrid == 6

(* The box sizes a configuration gives: positive numbers. *)
BoxSizes == {1, 2}

(* The values a cell of a spectrum takes: complex numbers <<re, im>>. *)
Vals == { <<1, 0>>, <<0, 1>> }

----------------------------------------------------------------------------
(* Build configuration: the four correction features, in source order *)

Modes == << "ngp_correction_single", "cic_correction_single",
            "ngp_correction_both", "cic_correction_both" >>

ModeSet == { Modes[n] : n \in 1..Len(Modes) }

(* The power of the window W each feature's block divides contrib.re by. *)
WindowPower(mode) ==
    CASE mode = "ngp_correction_single" -> 1
      [] mode = "cic_correction_single" -> 2
      [] mode = "ngp_correction_both"   -> 2
      [] mode = "cic_correction_both"   -> 4

(* The if / else-if chain of println!s at the head of correlate. *)
Announce(fs) ==
    IF "ngp_correction_single" \in fs THEN "ngp_correction_single"
    ELSE IF "cic_correction_single" \in fs THEN "cic_correction_single"
    ELSE IF "ngp_correction_both" \in fs THEN "ngp_correction_both"
    ELSE IF "cic_correction_both" \in fs THEN "cic_correction_both"
    ELSE "none"

----------------------------------------------------------------------------
(* Pure helpers of correlate *)

Nhalf(n) == n \div 2

(* let iper = if i >= nhalf { ngrid - i } else { i }; *)
Fold(n, x) == IF x >= Nhalf(n) THEN n - x ELSE x

(* w[x] / kf: x for x in 0..=nhalf, x - ngrid for x in nhalf+1..ngrid *)
WaveIndex(n, x) == IF x <= Nhalf(n) THEN x ELSE x - n

WTable(n) == [x \in 0..(n - 1) |-> WaveIndex(n, x)]

(* (0.5 + r.sqrt()) as usize, for an integer r >= 0: the m with            *)
(* m - 0.5 <= sqrt(r) < m + 0.5.                                           *)
RoundSqrt(r) ==
    CHOOSE m \in 0..(r + 1) :
        /\ (m = 0 \/ (2 * m - 1) * (2 * m - 1) <= 4 * r)
        /\ 4 * r < (2 * m + 1) * (2 * m + 1)

(* r and m of the triple (x, y, z) *)
BinM(n, x, y, z) ==
    RoundSqrt(Fold(n, x) * Fold(n, x) + Fold(n, y) * Fold(n, y)
              + Fold(n, z) * Fold(n, z))

(* g = w[i]^2 + w[j]^2 + w[k]^2, in units of kf^2 *)
G(wt, x, y, z) == wt[x] * wt[x] + wt[y] * wt[y] + wt[z] * wt[z]

(* scale = (0.5 + (g * coeff).sqrt()) as usize; coeff = 1 / kf^2 *)
Scale(g) == RoundSqrt(g)

(* A slip: the DC test is missing. *)
ContributesAlways(g) == TRUE

(* if g != 0.0 *)
ContributesPower(g) == g # 0

Index(n, x, y, z) == z + n * (y + n * x)

Conj(a) == <<a[1], 0 - a[2]>>

Mul(a, b) == <<a[1] * b[1] - a[2] * b[2], a[1] * b[2] + a[2] * b[1]>>

Add(a, b) == <<a[1] + b[1], a[2] + b[2]>>

(* out1[index] * out2[index].conj() + out1[index].conj() * out2[index] *)
Contrib(a, b) == Add(Mul(a, Conj(b)), Mul(Conj(a), b))

Abs(x) == IF x < 0 THEN 0 - x ELSE x

(* sinc(theta), theta in units of pi / ngrid (an integer).  theta < 1e-20  *)
(* holds exactly when that integer is <= 0.  The result 1.0 is written 0   *)
(* and the result sin(theta) / theta, an even function of theta that is    *)
(* strictly decreasing on (0, pi), is written |theta|.                     *)
SincBranch(theta) == IF theta <= 0 THEN "one" ELSE "ratio"

Sinc(theta) == IF SincBranch(theta) = "one" THEN 0 ELSE Abs(theta)

(* sinc(PI * w[i] / (2 * kny)) * sinc(.. w[j] ..) * sinc(.. w[k] ..) *)
Window(wt, x, y, z) == <<Sinc(wt[x]), Sinc(wt[y]), Sinc(wt[z])>>

(* The cfg blocks of the enabled features, in source order: each divides   *)
(* contrib.re by its power of the window.                                  *)
RECURSIVE Divisors(_, _)
Divisors(fs, n) ==
    IF n > Len(Modes) THEN <<>>
    ELSE IF Modes[n] \in fs
         THEN <<Modes[n]>> \o Divisors(fs, n + 1)
         ELSE Divisors(fs, n + 1)

RECURSIVE TotalPower(_)
TotalPower(ds) ==
    IF ds = <<>> THEN 0 ELSE WindowPower(Head(ds)) + TotalPower(Tail(ds))

(* A contribution re / W^p is kept as the term <<W, p>> -> re. *)
TermKey(fs, wt, x, y, z) ==
    IF TotalPower(Divisors(fs, 1)) = 0
    THEN <<<<0, 0, 0>>, 0>>
    ELSE <<Window(wt, x, y, z), TotalPower(Divisors(fs, 1))>>

NoTerms == [q \in {} |-> 0]

AddTerm(terms, key, v) ==
    IF key \in DOMAIN terms
    THEN [terms EXCEPT ![key] = @ + v]
    ELSE [q \in (DOMAIN terms) \cup {key} |->
              IF q = key THEN v ELSE terms[q]]

(* A slip: the count is assigned, not incremented. *)
WeightsAfterAssign(iw, n, x, y, z) ==
    [iw EXCEPT ![BinM(n, x, y, z)] = 1]

(* A slip: the increment sits inside `if g != 0.0`, which skips the DC     *)
(* triple.                                                                 *)
WeightsAfterSkipDC(iw, n, x, y, z) ==
    IF x = 0 /\ y = 0 /\ z = 0 THEN iw
    ELSE [iw EXCEPT ![BinM(n, x, y, z)] = @ + 1]

(* let r = ...; let m = ...; iweights[m] += 1; *)
WeightsAfter(iw, n, x, y, z) ==
    [iw EXCEPT ![BinM(n, x, y, z)] = @ + 1]

NoLocals ==
    [i |-> -1, j |-> -1, k |-> -1, iper |-> -1, jper |-> -1, kper |-> -1,
     m |-> -1, g |-> -1, scale |-> -1, re |-> 0, sincs |-> <<>>, divisors |-> <<>>, accumulated |-> FALSE]

----------------------------------------------------------------------------
(* main: the order of the stages and the handling of their results *)

StageOrder == << "config", "load_grid1", "load_grid2", "perform_fft",
                 "correlate", "save_result" >>

StageNo(stage) == CHOOSE n \in 1..Len(StageOrder) : StageOrder[n] = stage

(* A slip: the error is printed and main goes on to the next stage. *)
FailOpen(stage, msg) ==
    /\ calls' = Append(calls, stage)
    /\ results' = Append(results, "err")
    /\ stderr' = <<"Error: ", msg>>
    /\ exit_code' = exit_code
    /\ pc' = IF StageNo(stage) < Len(StageOrder)
             THEN StageOrder[StageNo(stage) + 1]
             ELSE "exit"

(* .unwrap_or_else(|err| { eprintln!("Error: {}", err); process::exit(1) }) *)
FailClosed(stage, msg) ==
    /\ calls' = Append(calls, stage)
    /\ results' = Append(results, "err")
    /\ stderr' = <<"Error: ", msg>>
    /\ exit_code' = 1
    /\ pc' = "exit"

(* A panic (index out of range) unwinds main: exit status 101. *)
Panicked(msg) ==
    /\ stderr' = <<"panicked: ", msg>>
    /\ exit_code' = 101
    /\ pc' = "exit"

estate == <<features, announced, ngrid, boxsize, out1, out2, w, pow_spec,
            iweights, deltasqk, i, j, k, loc, file>>

----------------------------------------------------------------------------
(* Initial state: the process starts, built with some set of features *)

Init ==
    /\ pc = "config"
    /\ exit_code = -1
    /\ stderr = <<>>
    /\ calls = <<>>
    /\ results = <<>>
    /\ features \in SUBSET ModeSet
    /\ announced = ""
    /\ ngrid = 0
    /\ boxsize = 0
    /\ out1 = <<>>
    /\ out2 = <<>>
    /\ w = <<>>
    /\ pow_spec = <<>>
    /\ iweights = <<>>
    /\ deltasqk = <<>>
    /\ i = 0
    /\ j = 0
    /\ k = 0
    /\ loc = NoLocals
    /\ file = [created |-> FALSE, lines |-> <<>>]

----------------------------------------------------------------------------
(* Config::new *)

ConfigNewErr ==
    /\ pc = "config"
    /\ \E msg \in { "Incorrect command-line argument.",
                    "Unable to open configuration file.",
                    "Unable to read configuration from file." } :
           FailClosed("config", msg)
    /\ UNCHANGED estate

ConfigNewOk ==
    /\ pc = "config"
    /\ \E n \in 1..MaxNgrid, b \in BoxSizes :
           /\ ngrid' = n
           /\ boxsize' = b
    /\ calls' = Append(calls, "config")
    /\ results' = Append(results, "ok")
    /\ pc' = "load_grid1"
    /\ UNCHANGED <<exit_code, stderr, features, announced, out1, out2, w,
                   pow_spec, iweights, deltasqk, i, j, k, loc, file>>

----------------------------------------------------------------------------
(* load_grid(&config, num) *)

GridStage(num) == IF num = 1 THEN "load_grid1" ELSE "load_grid2"

AfterGrid(num) == IF num = 1 THEN "load_grid2" ELSE "perform_fft"

LoadGridErr(num) ==
    /\ pc = GridStage(num)
    /\ \E msg \in { "Unable to open grid file!",
                    "Problem reading values from file!" } :
           FailClosed(GridStage(num), msg)
    /\ UNCHANGED estate

(* All ngrid^3 cells were read; the sanity print slices grid[0..5]. *)
LoadGridOk(num) ==
    /\ pc = GridStage(num)
    /\ calls' = Append(calls, GridStage(num))
    /\ IF ngrid * ngrid * ngrid < 5
       THEN /\ Panicked("range end index 5 out of range for slice")
            /\ results' = Append(results, "panic")
       ELSE /\ pc' = AfterGrid(num)
            /\ results' = Append(results, "ok")
            /\ UNCHANGED <<exit_code, stderr>>
    /\ UNCHANGED estate

----------------------------------------------------------------------------
(* perform_fft; the transform itself is the external FFTW primitive *)

PerformFftErr ==
    /\ pc = "perform_fft"
    /\ \E msg \in { "Unable to create FFTW plan.", "Failed to FFT grid." } :
           FailClosed("perform_fft", msg)
    /\ UNCHANGED estate

(* A spectrum of ngrid^3 cells: the cell of index 0 (the DC mode) holds dc  *)
(* and every other cell holds rest.                                        *)
Spectrum(n, dc, rest) == [len |-> n * n * n, dc |-> dc, rest |-> rest]

Cell(out, x) == IF x = 0 THEN out.dc ELSE out.rest

(* Both transforms succeeded; the sanity print reads out1[n], out2[n] for  *)
(* n in 0..10.                                                             *)
PerformFftOk ==
    /\ pc = "perform_fft"
    /\ calls' = Append(calls, "perform_fft")
    /\ IF ngrid * ngrid * ngrid < 10
       THEN /\ Panicked("index out of bounds")
            /\ results' = Append(results, "panic")
            /\ UNCHANGED <<out1, out2>>
       ELSE /\ \E dc1 \in Vals, rest1 \in Vals, dc2 \in Vals, rest2 \in Vals :
                   /\ out1' = Spectrum(ngrid, dc1, rest1)
                   /\ out2' = Spectrum(ngrid, dc2, rest2)
            /\ pc' = "correlate"
            /\ results' = Append(results, "ok")
            /\ UNCHANGED <<exit_code, stderr>>
    /\ UNCHANGED <<features, announced, ngrid, boxsize, w, pow_spec,
                   iweights, deltasqk, i, j, k, loc, file>>

----------------------------------------------------------------------------
(* correlate *)

ZeroBin == [sum |-> NoTerms, norm |-> <<>>]

(* The announcement, the wavenumber table and the zeroed bins. *)
CorrelateBegin ==
    /\ pc = "correlate"
    /\ calls' = Append(calls, "correlate")
    /\ announced' = Announce(features)
    /\ w' = WTable(ngrid)
    /\ pow_spec' = [b \in 0..(ngrid - 1) |-> ZeroBin]
    /\ iweights' = [b \in 0..(ngrid - 1) |-> 0]
    /\ i' = 0
    /\ j' = 0
    /\ k' = 0
    /\ pc' = "accumulate"
    /\ UNCHANGED <<exit_code, stderr, results, features, ngrid, boxsize, out1,
                   out2, deltasqk, loc, file>>

(* The three nested for loops, as one step from a triple to the next. *)
NextTriple(n, x, y, z) ==
    IF z + 1 < n THEN <<x, y, z + 1>>
    ELSE IF y + 1 < n THEN <<x, y + 1, 0>>
    ELSE <<x + 1, 0, 0>>

(* One iteration of the innermost loop body, for the triple (i, j, k). *)
Accumulate ==
    /\ pc = "accumulate"
    /\ i < ngrid
    /\ LET m     == BinM(ngrid, i, j, k)
           g     == G(w, i, j, k)
           scale == Scale(g)
           acc   == ContributesPower(g)
           c     == Contrib(Cell(out1, Index(ngrid, i, j, k)),
                            Cell(out2, Index(ngrid, i, j, k)))
           ds    == Divisors(features, 1)
           nxt   == NextTriple(ngrid, i, j, k)
           here  == [NoLocals EXCEPT !.i = i, !.j = j, !.k = k,
                                     !.iper = Fold(ngrid, i),
                                     !.jper = Fold(ngrid, j),
                                     !.kper = Fold(ngrid, k), !.m = m]
       IN  IF m >= ngrid
           THEN \* iweights[m] is out of range
                /\ Panicked("index out of bounds")
                /\ results' = Append(results, "panic")
                /\ loc' = here
                /\ UNCHANGED <<iweights, pow_spec, i, j, k>>
           ELSE IF acc /\ scale >= ngrid
           THEN \* pow_spec[scale] is out of range
                /\ Panicked("index out of bounds")
                /\ results' = Append(results, "panic")
                /\ iweights' = WeightsAfter(iweights, ngrid, i, j, k)
                /\ loc' = [here EXCEPT !.g = g, !.scale = scale]
                /\ UNCHANGED <<pow_spec, i, j, k>>
           ELSE /\ iweights' = WeightsAfter(iweights, ngrid, i, j, k)
                /\ pow_spec' =
                       IF acc
                       THEN [pow_spec EXCEPT ![scale].sum =
                                AddTerm(@, TermKey(features, w, i, j, k),
                                        c[1] \div 2)]
                       ELSE pow_spec
                /\ loc' = IF acc
                          THEN [here EXCEPT !.g = g, !.scale = scale,
                                            !.re = c[1],
                                            !.sincs = IF ds = <<>> THEN <<>>
                                                      ELSE Window(w, i, j, k),
                                            !.divisors = ds,
                                            !.accumulated = TRUE]
                          ELSE [here EXCEPT !.g = g]
                /\ i' = nxt[1]
                /\ j' = nxt[2]
                /\ k' = nxt[3]
                /\ UNCHANGED <<pc, exit_code, stderr, results>>
    /\ UNCHANGED <<calls, features, announced, ngrid, boxsize, out1, out2, w,
                   deltasqk, file>>

(* A slip: the normalisation runs over every bin. *)
NormalisedAllBins(n) == 0..(n - 1)

(* for i in 0..nhalf *)
NormalisedBins(n) == 0..(Nhalf(n) - 1)

(* pow_spec[b] *= boxsize^3 / ngrid^6; pow_spec[b] /= iweights[b] *)
Normalised(bin, b) ==
    [sum |-> bin.sum,
     norm |-> <<boxsize * boxsize * boxsize,
                ngrid * ngrid * ngrid * ngrid * ngrid * ngrid,
                iweights[b]>>]

(* The loops are over: normalise, push deltasqk, return the Output. *)
Normalise ==
    /\ pc = "accumulate"
    /\ i >= ngrid
    /\ LET pw == [b \in DOMAIN pow_spec |->
                     IF b \in NormalisedBins(ngrid)
                     THEN Normalised(pow_spec[b], b)
                     ELSE pow_spec[b]]
       IN  /\ pow_spec' = pw
           /\ deltasqk' = [b \in NormalisedBins(ngrid) |->
                              [w3 |-> w[b] * w[b] * w[b], p |-> pw[b]]]
    /\ results' = Append(results, "ok")
    /\ pc' = "save_result"
    /\ UNCHANGED <<exit_code, stderr, calls, features, announced, ngrid,
                   boxsize, out1, out2, w, iweights, i, j, k, loc, file>>

----------------------------------------------------------------------------
(* Output::save_result *)

Header == <<"# w pow_spec deltasqk iweights">>

Row(n) == <<w[n], pow_spec[n], deltasqk[n], iweights[n]>>

(* The header and the rows 0 .. n-1. *)
Lines(n) == <<Header>> \o [r \in 1..n |-> Row(r - 1)]

(* for n in 0..nhalf, with nhalf = config.ngrid / 2 *)
SavedRows == Nhalf(ngrid)

(* File::create fails: no file.  A writeln! fails: the lines before it. *)
SaveResultErr ==
    /\ pc = "save_result"
    /\ \/ /\ FailClosed("save_result", "Unable to open output file!")
          /\ UNCHANGED file
       \/ /\ FailClosed("save_result", "Unable to save output!")
          /\ file' = [created |-> TRUE, lines |-> <<>>]
       \/ \E n \in 0..(SavedRows - 1) :
              /\ FailClosed("save_result", "Unable to save output!")
              /\ file' = [created |-> TRUE, lines |-> Lines(n)]
    /\ UNCHANGED <<features, announced, ngrid, boxsize, out1, out2, w,
                   pow_spec, iweights, deltasqk, i, j, k, loc>>

(* Every line is written; main returns. *)
SaveResultOk ==
    /\ pc = "save_result"
    /\ file' = [created |-> TRUE, lines |-> Lines(SavedRows)]
    /\ calls' = Append(calls, "save_result")
    /\ results' = Append(results, "ok")
    /\ exit_code' = 0
    /\ pc' = "exit"
    /\ UNCHANGED <<stderr, features, announced, ngrid, boxsize, out1, out2, w,
                   pow_spec, iweights, deltasqk, i, j, k, loc>>

----------------------------------------------------------------------------

Next ==
    \/ ConfigNewErr
    \/ ConfigNewOk
    \/ \E num \in {1, 2} : LoadGridErr(num)
    \/ \E num \in {1, 2} : LoadGridOk(num)
    \/ PerformFftErr
    \/ PerformFftOk
    \/ CorrelateBegin
    \/ Accumulate
    \/ Normalise
    \/ SaveResultErr
    \/ SaveResultOk

Spec == Init /\ [][Next]_vars

----------------------------------------------------------------------------
(* Vocabulary of the properties *)

(* The length of a vector and the sum of its entries. *)
VecLen(v) == Cardinality(DOMAIN v)

RECURSIVE SumTo(_, _)
SumTo(v, n) == IF n = 0 THEN 0 ELSE v[n - 1] + SumTo(v, n - 1)

SumVec(v) == SumTo(v, VecLen(v))

(* An iteration of the accumulation loop has started on a triple. *)
Iterated == loc.i >= 0

(* The latest iteration ran to its end (it did not abort on an index). *)
IterationDone == Iterated /\ pc = "accumulate"

(* The accumulation loop is over and correlate did not abort. *)
LoopFinished ==
    \/ pc = "accumulate" /\ i >= ngrid
    \/ Len(results) >= StageNo("correlate")
       /\ results[StageNo("correlate")] = "ok"

(* correlate has returned its Output. *)
Returned ==
    /\ Len(results) >= StageNo("correlate")
    /\ results[StageNo("correlate")] = "ok"

(* correlate aborted on an index out of range. *)
CorrelateAborted ==
    /\ Len(results) = StageNo("correlate")
    /\ results[StageNo("correlate")] = "panic"

RECURSIVE SumOver(_, _)
SumOver(f, S) ==
    IF S = {} THEN 0
    ELSE LET q == CHOOSE q \in S : TRUE
         IN  f[q] + SumOver(f, S \ {q})

(* The numerators accumulated into all the bins together. *)
PowerSum ==
    SumOver([b \in DOMAIN pow_spec |->
                 SumOver(pow_spec[b].sum, DOMAIN pow_spec[b].sum)],
            DOMAIN pow_spec)

----------------------------------------------------------------------------
(* C1: for every ngrid > 0 and every triple, the radial bin m and the bin  *)
(* scale lie in [0, ngrid), so correlate never aborts on an index out of   *)
(* range.                                                                  *)
C1_BinsInRange ==
    /\ Iterated => loc.m \in 0..(ngrid - 1) /\ loc.scale < ngrid
    /\ ~CorrelateAborted

----------------------------------------------------------------------------
(* C2: the stages run in the fixed order Config::new, load_grid(1),        *)
(* load_grid(2), perform_fft, correlate, save_result, none twice; a stage  *)
(* that returns an error ends the run with "Error: <message>" and exit     *)
(* status 1, and no later stage runs; save_result and the output file are  *)
(* reached only after every earlier stage succeeded.                       *)
C2_FailClosed ==
    /\ Len(calls) <= Len(StageOrder)
    /\ \A n \in 1..Len(calls) : calls[n] = StageOrder[n]
    /\ Len(results) \in {Len(calls) - 1, Len(calls)}
    /\ \A n \in 1..Len(results) :
           /\ n < Len(calls) => results[n] = "ok"
           /\ results[n] = "err" =>
                  /\ n = Len(calls)
                  /\ pc = "exit"
                  /\ exit_code = 1
                  /\ stderr[1] = "Error: "
    /\ exit_code = 1 => results # <<>> /\ results[Len(results)] = "err"
    /\ (pc = "save_result" \/ file.created) =>
           /\ Len(results) >= Len(StageOrder) - 1
           /\ \A n \in 1..(Len(StageOrder) - 1) : results[n] = "ok"

(* load_grid(2) returned an error: the run ended there with status 1. *)
C2_Witness ==
    /\ exit_code = 1
    /\ calls = <<"config", "load_grid1", "load_grid2">>
    /\ results = <<"ok", "ok", "err">>
    /\ ~file.created

----------------------------------------------------------------------------
(* C3, as stated: the Output returned by correlate holds four sequences w, *)
(* pow_spec, deltasqk and iweights, each of length nhalf = ngrid / 2.      *)
C3_AllOfLengthNhalf ==
    Returned =>
        /\ VecLen(w) = Nhalf(ngrid)
        /\ VecLen(pow_spec) = Nhalf(ngrid)
        /\ VecLen(deltasqk) = Nhalf(ngrid)
        /\ VecLen(iweights) = Nhalf(ngrid)

(* C3, amended: in the Output returned by correlate deltasqk has length    *)
(* nhalf = ngrid / 2, while w, pow_spec and iweights keep all ngrid        *)
(* entries, those of pow_spec at indices >= nhalf not normalised;          *)
(* save_result writes the first nhalf entries of each.                     *)
C3_OutputLengths ==
    Returned =>
        /\ VecLen(deltasqk) = Nhalf(ngrid)
        /\ VecLen(w) = ngrid
        /\ VecLen(pow_spec) = ngrid
        /\ VecLen(iweights) = ngrid
        /\ \A b \in DOMAIN pow_spec :
               (pow_spec[b].norm = <<>>) <=> (b >= Nhalf(ngrid))
        /\ exit_code = 0 => Len(file.lines) = 1 + Nhalf(ngrid)

(* correlate returned the Output of a 4 x 4 x 4 run, which was saved. *)
C3_Witness ==
    /\ Returned
    /\ ngrid = 4
    /\ exit_code = 0
    /\ VecLen(w) = 4
    /\ VecLen(deltasqk) = 2

----------------------------------------------------------------------------
(* C4: for every ngrid > 0 and every axis index, the folded index lies in  *)
(* [0, ngrid / 2], folding it again leaves it unchanged, and the boundary  *)
(* index nhalf folds to itself.                                            *)
C4_FoldProperties ==
    Iterated =>
        /\ \A per \in {loc.iper, loc.jper, loc.kper} :
               /\ per \in 0..Nhalf(ngrid)
               /\ Fold(ngrid, per) = per
        /\ loc.i = Nhalf(ngrid) => loc.iper = loc.i
        /\ loc.j = Nhalf(ngrid) => loc.jper = loc.j
        /\ loc.k = Nhalf(ngrid) => loc.kper = loc.k

----------------------------------------------------------------------------
(* C5: whatever features the build enables, a contribution is divided by   *)
(* the window of at most one correction mode, the one announced, and by    *)
(* nothing when no mode is selected.                                       *)
C5_OneModeApplied ==
    loc.accumulated =>
        /\ Len(loc.divisors) <= 1
        /\ features = {} => loc.divisors = <<>>
        /\ \A n \in 1..Len(loc.divisors) : loc.divisors[n] = announced

----------------------------------------------------------------------------
(* C6: the triple (0, 0, 0) adds nothing to any pow_spec bin, it only      *)
(* increments iweights; the accumulated power does not depend on out1[0]   *)
(* and out2[0]: it is the sum of the contributions of the other triples.   *)
C6_DCExclusion ==
    IterationDone =>
        /\ (loc.i = 0 /\ loc.j = 0 /\ loc.k = 0) =>
               /\ ~loc.accumulated
               /\ \A b \in DOMAIN pow_spec : pow_spec[b] = ZeroBin
               /\ SumVec(iweights) = 1
        /\ PowerSum = (Index(ngrid, i, j, k) - 1)
                      * (Contrib(out1.rest, out2.rest)[1] \div 2)

(* The loop has gone past the DC triple of spectra whose cell 0 would      *)
(* contribute, had it been accumulated.                                    *)
C6_Witness ==
    /\ IterationDone
    /\ loc.i = 0 /\ loc.j = 0 /\ loc.k = 0
    /\ Contrib(out1.dc, out2.dc)[1] # 0
    /\ Contrib(out1.rest, out2.rest)[1] = 0

----------------------------------------------------------------------------
(* C7: every triple, the DC origin included and whatever the input values, *)
(* increments exactly one iweights bin by 1: after t triples the sum of    *)
(* iweights is t, and ngrid^3 when the loop is over.                       *)
C7_WeightSum ==
    /\ pc = "accumulate" => SumVec(iweights) = Index(ngrid, i, j, k)
    /\ LoopFinished => SumVec(iweights) = ngrid * ngrid * ngrid
    /\ IterationDone => iweights[loc.m] >= 1

(* The loop over a 4 x 4 x 4 grid is over: the weights sum to 64. *)
C7_Witness ==
    /\ LoopFinished
    /\ ngrid = 4
    /\ SumVec(iweights) = 64

----------------------------------------------------------------------------
(* C8: for every non-DC triple and every ngrid > 0 the physical-unit bin   *)
(* scale coincides with the grid-unit bin m, so that iweights[b] counts    *)
(* the triples accumulated into pow_spec[b].                               *)
C8_ScaleIsM ==
    loc.accumulated => loc.scale = loc.m

----------------------------------------------------------------------------
(* C9: the window is even in each axis index: for an axis index x >= 1 the *)
(* sinc factor of x equals that of its mirror index ngrid - x, and the     *)
(* constant branch of sinc is taken for the zero wavenumber only.          *)
C9_WindowEven ==
    (loc.accumulated /\ loc.sincs # <<>>) =>
        \A a \in 1..3 :
            LET x == <<loc.i, loc.j, loc.k>>[a]
            IN  /\ x >= 1 => loc.sincs[a] = Sinc(w[ngrid - x])
                /\ SincBranch(w[x]) = "one" => w[x] = 0

----------------------------------------------------------------------------
(* C10: whenever the accumulation loop completes, every retained shell is  *)
(* non-empty: iweights[b] >= 1 for all b in [0, ngrid / 2), so the         *)
(* normalisation never divides by zero.                                    *)
C10_NoEmptyShell ==
    LoopFinished =>
        /\ \A b \in 0..(Nhalf(ngrid) - 1) : iweights[b] >= 1
        /\ \A b \in DOMAIN pow_spec :
               pow_spec[b].norm # <<>> => pow_spec[b].norm[3] >= 1

(* The loop over a 6 x 6 x 6 grid is over and its three retained shells    *)
(* were normalised.                                                        *)
C10_Witness ==
    /\ Returned
    /\ ngrid = 6
    /\ \A b \in 0..2 : pow_spec[b].norm # <<>>

====
